---- MODULE Spec2Model ----
(***************************************************************************)
(* Model of ST0las2hdf_perfect_kana_pdal.py: the LAS <-> HDF5 converter.   *)
(*                                                                         *)
(* A path is a sequence of one-character strings.  An array is the record  *)
(* [len, head]: its length and the values of its first MaxTracked points,  *)
(* so that arrays of millions of points stay finite.  Coordinates are in   *)
(* quarters of the LAS encoder's scale (0.0025 for the default 0.01).      *)
(***************************************************************************)
EXTENDS Integers, Sequences, FiniteSets, TLC

\* ------------------------------------------------------------------ bounds
MaxProcesses == 2
MaxMemory == 4
MaxTracked == 2
MaxSeed == 3

\* ------------------------------------------------- constants of the program
ChunkLimit == 1000000
MemPerProcess == 2
PointFormat == 3
CompressionOpts == 4
\* argparse's default=None of --max-memory
NoMaxMemory == -1

Min(a, b) == IF a <= b THEN a ELSE b

\* the empty mapping: no column, no dataset, no attribute
NoColumns == [k \in {} |-> k]

\* ------------------------------------------------------------------- paths
LasPath == <<"a", ".", "l", "a", "s">>
UpperLasPath == <<"A", ".", "L", "A", "S">>
HdfPath == <<"b", ".", "h", "d", "f", "5">>
TxtPath == <<"c", ".", "t", "x", "t">>
Paths == {LasPath, UpperLasPath, HdfPath, TxtPath}

LasExt == <<".", "l", "a", "s">>
HdfExt == <<".", "h", "d", "f", "5">>

\* str.lower() on one character
LowerChar(c) ==
    CASE c = "A" -> "a"
      [] c = "L" -> "l"
      [] c = "S" -> "s"
      [] c = "H" -> "h"
      [] c = "D" -> "d"
      [] c = "F" -> "f"
      [] OTHER -> c

\* str.lower()
Lower(s) == [i \in 1..Len(s) |-> LowerChar(s[i])]

\* str.endswith(suffix)
EndsWith(s, suffix) ==
    /\ Len(s) >= Len(suffix)
    /\ SubSeq(s, Len(s) - Len(suffix) + 1, Len(s)) = suffix

\* -------------------------------------------------------------- dimensions
RequiredDims == {"X", "Y", "Z"}

OptionalDims ==
    {"Intensity", "ReturnNumber", "NumberOfReturns", "ScanDirectionFlag",
     "EdgeOfFlightLine", "Classification", "ScanAngleRank", "UserData",
     "PointSourceId"}

ColourDims == {"Red", "Green", "Blue"}

\* the order in which the point view lists its dimensions (view.dtype.names)
DimOrder ==
    <<"X", "Y", "Z", "Intensity", "ReturnNumber", "NumberOfReturns",
      "ScanDirectionFlag", "EdgeOfFlightLine", "Classification",
      "ScanAngleRank", "UserData", "PointSourceId", "GpsTime",
      "Red", "Green", "Blue">>

AllDims == {DimOrder[i] : i \in 1..Len(DimOrder)}

DimIndex(d) == CHOOSE i \in 1..Len(DimOrder) : DimOrder[i] = d

\* view.dtype.names of a view holding the dimensions ds
DimNames(ds) == SelectSeq(DimOrder, LAMBDA d : d \in ds)

\* the attribute of the LAS point record each dimension is assigned to
LasField(d) ==
    CASE d = "X" -> "x"
      [] d = "Y" -> "y"
      [] d = "Z" -> "z"
      [] d = "Intensity" -> "intensity"
      [] d = "ReturnNumber" -> "return_number"
      [] d = "NumberOfReturns" -> "number_of_returns"
      [] d = "ScanDirectionFlag" -> "scan_direction_flag"
      [] d = "EdgeOfFlightLine" -> "edge_of_flight_line"
      [] d = "Classification" -> "classification"
      [] d = "ScanAngleRank" -> "scan_angle_rank"
      [] d = "UserData" -> "user_data"
      [] d = "PointSourceId" -> "point_source_id"
      [] d = "Red" -> "red"
      [] d = "Green" -> "green"
      [] d = "Blue" -> "blue"
      [] OTHER -> "unassigned"

\* the dimensions of a point record of format 3: format 0 plus GPS time and colour
HeaderDims == RequiredDims \cup OptionalDims \cup ColourDims \cup {"GpsTime"}

\* ------------------------------------------------------------------ arrays
Tracked(n) == 1..Min(n, MaxTracked)

Zeros(n) == [len |-> n, head |-> [i \in Tracked(n) |-> 0]]

\* the value of point i of dimension d in the input generated from seed
Sample(d, i, seed) == seed + DimIndex(d) + 4 * (i - 1)

SampleArray(d, n, seed) ==
    [len |-> n, head |-> [i \in Tracked(n) |-> Sample(d, i, seed)]]

\* the encoder stores a coordinate as round(value / scale): values are in
\* quarters of the scale, and numpy rounds halves to the even integer
Quantise(v) ==
    LET q == v \div 4
        r == v % 4
    IN  IF r < 2 THEN 4 * q
        ELSE IF r > 2 THEN 4 * (q + 1)
        ELSE IF q % 2 = 0 THEN 4 * q ELSE 4 * (q + 1)

\* las.x = array, and likewise y and z
SetCoordinate(a) == [len |-> a.len, head |-> [i \in DOMAIN a.head |-> Quantise(a.head[i])]]

\* las.<field> = array, for the integer fields
SetField(a) == a

\* ------------------------------------------------------------------- files
Absent == [kind |-> "absent"]
Unreadable == [kind |-> "other"]

XYZ == {"X", "Y", "Z"}
Format0Dims == XYZ \cup OptionalDims
\* the dimension sets the LAS reader yields for point formats 0 to 3
CloudDimSets ==
    {XYZ \cup {"Intensity", "Classification"},
     Format0Dims,
     Format0Dims \cup {"GpsTime"},
     Format0Dims \cup ColourDims,
     AllDims}

LargeCounts == {500000, 1000000, 2500000}
PointCounts == (0..MaxTracked) \cup LargeCounts

PipelineMetadata == "provenance"

LasFile(ds, n, seed) ==
    [kind |-> "las", n |-> n,
     cols |-> [d \in ds |-> SampleArray(d, n, seed)],
     metadata |-> PipelineMetadata]

\* a chunk size that forgets the cap
ChunkSizeUncapped(n) == n

\* chunk_size = min(len(view[dim]), 1000000)
ChunkSize(n) == Min(n, ChunkLimit)

\* what hdf.create_dataset(dim, data=..., chunks=..., ...) stores
Dataset(a) ==
    [data |-> a, chunks |-> ChunkSize(a.len), compression |-> "gzip",
     compression_opts |-> CompressionOpts, shuffle |-> TRUE]

\* json.dumps and json.loads
JsonDumps(m) == <<"json", m>>
JsonLoads(t) == t[2]

\* hdf.create_dataset('metadata', data=json.dumps(pipeline.metadata))
MetadataDataset(m) == [data |-> JsonDumps(m), scalar |-> TRUE]

EmptyMetadata == "{}"

EmptyContainer == [kind |-> "hdf5", datasets |-> NoColumns]

Put(f, k, v) == [x \in DOMAIN f \cup {k} |-> IF x = k THEN v ELSE f[x]]

ContainerKeySets ==
    CloudDimSets \cup
    {{"Y", "Z"}, {"X", "Z", "Intensity"}, {"X", "Y", "Red", "Green", "Blue"},
     {"Intensity"},
     XYZ \cup {"Green", "Blue"}, XYZ \cup {"Red"}, XYZ \cup {"Red", "Blue"},
     XYZ \cup {"Red", "Green", "Intensity"}}

ContainerFile(ks, n, seed, withMetadata) ==
    [kind |-> "hdf5",
     datasets |->
        [k \in ks \cup (IF withMetadata THEN {"metadata"} ELSE {}) |->
            IF k = "metadata" THEN MetadataDataset(PipelineMetadata)
            ELSE Dataset(SampleArray(k, n, seed))]]

InputFiles(seeds) ==
    {LasFile(ds, n, s) : ds \in CloudDimSets, n \in PointCounts, s \in seeds}
    \cup {ContainerFile(ks, MaxTracked, s, m) :
            ks \in ContainerKeySets, s \in seeds, m \in BOOLEAN}
    \cup {Absent, Unreadable}

\* ------------------------------------------------------------------- state
VARIABLES
    entry,          \* the function the run enters: "main" or "dispatch"
    run,            \* 1 for the first invocation, 2 for the one on its output
    input_file, output_file, to_las,
    requested,      \* --num-processes as parsed
    num_processes,  \* args.num_processes
    max_memory,     \* args.max_memory, NoMaxMemory when not given
    pc,             \* position in main or convert_single_file
    direction,      \* the conversion function called: "forward", "inverse"
    cpos,           \* position inside the conversion function
    fs,             \* the file system: path -> file
    fsLog,          \* the file operations of this run
    pipeline, view, dimensions, written,    \* locals of convert_las_to_hdf5
    data, metadata, las,                    \* locals of convert_hdf5_to_las
    result,         \* the conversion's return value: "none", "true", "false"
    stdout,         \* the outcome messages printed
    exit_status     \* the status the process exits with

argVars == <<entry, run, input_file, output_file, to_las, requested, max_memory>>
fwdVars == <<pipeline, view, dimensions, written>>
invVars == <<data, metadata, las>>
vars ==
    <<entry, run, input_file, output_file, to_las, requested, num_processes,
      max_memory, pc, direction, cpos, fs, fsLog, pipeline, view, dimensions,
      written, data, metadata, las, result, stdout, exit_status>>

NoPipeline == [arrays |-> <<NoColumns>>, metadata |-> ""]
NoLas == [point_format |-> 0, version |-> "", attrs |-> NoColumns]

\* nothing read, nothing assembled, nothing printed, no conversion entered
Locals ==
    /\ pipeline = NoPipeline
    /\ view = NoColumns
    /\ dimensions = << >>
    /\ written = 0
    /\ data = NoColumns
    /\ metadata = ""
    /\ las = NoLas
    /\ direction = "none"
    /\ cpos = "idle"
    /\ result = "none"
    /\ stdout = {}
    /\ fsLog = {}
    /\ exit_status = 0

\* the parsed command line of main, or the file pair of convert_single_file
\* (which main never calls: it is modelled as an entry point of its own), and
\* one input file; every other path is absent
Init ==
    /\ run = 1
    /\ entry \in {"main", "dispatch"}
    /\ input_file \in Paths
    /\ output_file \in Paths
    /\ to_las \in (IF entry = "main" THEN BOOLEAN ELSE {FALSE})
    /\ requested \in (IF entry = "main" THEN 1..MaxProcesses ELSE {1})
    /\ num_processes = requested
    /\ max_memory \in
        (IF entry = "main" THEN {NoMaxMemory} \cup (0..MaxMemory) ELSE {NoMaxMemory})
    /\ pc = IF entry = "main" THEN "adjust" ELSE "dispatch"
    /\ \E f \in InputFiles({0}) :
        fs = [p \in Paths |-> IF p = input_file THEN f ELSE Absent]
    /\ Locals

\* ---------------------------------------------------------------- main
\* int(args.max_memory / mem_per_process)
MaxProcessesFor(m) == m \div MemPerProcess

\* args.num_processes = min(args.num_processes, max_processes)
AdjustedProcesses(n, m) == Min(n, MaxProcessesFor(m))

MainAdjust ==
    /\ pc = "adjust"
    /\ num_processes' =
        IF max_memory # NoMaxMemory
        THEN AdjustedProcesses(num_processes, max_memory)
        ELSE num_processes
    /\ pc' = "convert"
    /\ UNCHANGED <<argVars, direction, cpos, fs, fsLog, fwdVars, invVars,
                   result, stdout, exit_status>>

\* if args.to_las: convert_hdf5_to_las(...) else: convert_las_to_hdf5(...)
MainDirection(flag, inp, out) == IF flag THEN "inverse" ELSE "forward"

MainConvert ==
    /\ pc = "convert"
    /\ direction' = MainDirection(to_las, input_file, output_file)
    /\ pc' = "running"
    /\ UNCHANGED <<argVars, num_processes, cpos, fs, fsLog, fwdVars, invVars,
                   result, stdout, exit_status>>

SummaryMessage(r) ==
    IF r = "true" THEN "Conversion completed successfully." ELSE "Conversion failed."

\* main returns after the summary: the interpreter exits with status 0
MainSummary ==
    /\ pc = "summary"
    /\ stdout' = stdout \cup {SummaryMessage(result)}
    /\ pc' = "exit"
    /\ exit_status' = 0
    /\ UNCHANGED <<argVars, num_processes, direction, cpos, fs, fsLog, fwdVars,
                   invVars, result>>

\* ------------------------------------------------- convert_single_file
\* a dispatcher that looks at the input extension only
SelectDirectionByInput(inp, out) ==
    IF EndsWith(Lower(inp), LasExt) THEN "forward"
    ELSE IF EndsWith(Lower(inp), HdfExt) THEN "inverse"
    ELSE "none"

SelectDirection(inp, out) ==
    IF EndsWith(Lower(inp), LasExt) /\ EndsWith(Lower(out), HdfExt)
    THEN "forward"
    ELSE IF EndsWith(Lower(inp), HdfExt) /\ EndsWith(Lower(out), LasExt)
    THEN "inverse"
    ELSE "none"

Dispatch ==
    /\ pc = "dispatch"
    /\ LET d == SelectDirection(input_file, output_file)
       IN  IF d = "none"
           THEN /\ stdout' = stdout \cup {"Unsupported file conversion"}
                /\ result' = "false"
                /\ pc' = "returned"
                /\ UNCHANGED direction
           ELSE /\ direction' = d
                /\ pc' = "running"
                /\ UNCHANGED <<stdout, result>>
    /\ UNCHANGED <<argVars, num_processes, cpos, fs, fsLog, fwdVars, invVars,
                   exit_status>>

\* --------------------------------------------- leaving a conversion
ReturnPc == IF entry = "main" THEN "summary" ELSE "returned"

\* a handler that starts the conversion over instead of failing
RetryState == "idle"

\* where "except Exception" leaves the conversion
FailedState == "failed"

Continue(pos) ==
    /\ cpos' = pos
    /\ UNCHANGED <<result, pc, stdout>>

\* except Exception as e: print(...); return False
Failed ==
    /\ cpos' = FailedState
    /\ result' = "false"
    /\ pc' = ReturnPc
    /\ stdout' = stdout \cup {"Error converting"}

\* return True
Returned ==
    /\ cpos' = "done"
    /\ result' = "true"
    /\ pc' = ReturnPc
    /\ stdout' = stdout \cup {"Conversion completed for"}

\* ------------------------------------------------ convert_las_to_hdf5
InForward == pc = "running" /\ direction = "forward"

\* pipeline = pdal.Pipeline(json.dumps([{"type": "readers.las", ...}]))
FwdCreatePipeline ==
    /\ InForward
    /\ cpos = "idle"
    /\ Continue("step1")
    /\ UNCHANGED <<argVars, num_processes, direction, fs, fsLog, fwdVars,
                   invVars, exit_status>>

\* pipeline.execute(): reads the whole input, raises unless it is a LAS file
FwdExecute ==
    /\ InForward
    /\ cpos = "step1"
    /\ fsLog' = fsLog \cup {"read_input"}
    /\ \E ok \in BOOLEAN :
        IF ok /\ fs[input_file].kind = "las"
        THEN /\ pipeline' = [arrays |-> <<fs[input_file].cols>>,
                             metadata |-> fs[input_file].metadata]
             /\ Continue("step2")
        ELSE /\ Failed
             /\ UNCHANGED pipeline
    /\ UNCHANGED <<argVars, num_processes, direction, fs, view, dimensions,
                   written, invVars, exit_status>>

\* view = pipeline.arrays[0]; dimensions = view.dtype.names
FwdGetView ==
    /\ InForward
    /\ cpos = "step2"
    /\ view' = pipeline.arrays[1]
    /\ dimensions' = DimNames(DOMAIN pipeline.arrays[1])
    /\ Continue("step4")
    /\ UNCHANGED <<argVars, num_processes, direction, fs, fsLog, pipeline,
                   written, invVars, exit_status>>

\* with h5py.File(hdf5_file_path, 'w') as hdf: creates or truncates the file
FwdOpenContainer ==
    /\ InForward
    /\ cpos = "step4"
    /\ \E ok \in BOOLEAN :
        IF ok
        THEN /\ fs' = [fs EXCEPT ![output_file] = EmptyContainer]
             /\ fsLog' = fsLog \cup {"create_output"}
             /\ Continue("step5")
        ELSE /\ Failed
             /\ UNCHANGED <<fs, fsLog>>
    /\ UNCHANGED <<argVars, num_processes, direction, fwdVars, invVars,
                   exit_status>>

\* the storage library rejects a chunk shape with a zero dimension
ChunkAccepted(c) == c >= 1

\* for dim in dimensions: hdf.create_dataset(dim, data=view[dim], ...)
FwdCreateDataset ==
    /\ InForward
    /\ cpos = "step5"
    /\ written < Len(dimensions)
    /\ LET dim == dimensions[written + 1]
       IN  \E ok \in BOOLEAN :
            IF ok /\ ChunkAccepted(ChunkSize(view[dim].len))
            THEN /\ fs' = [fs EXCEPT ![output_file].datasets =
                                Put(@, dim, Dataset(view[dim]))]
                 /\ written' = written + 1
                 /\ Continue("step5")
            ELSE /\ Failed
                 /\ UNCHANGED <<fs, written>>
    /\ UNCHANGED <<argVars, num_processes, direction, fsLog, pipeline, view,
                   dimensions, invVars, exit_status>>

\* a writer that stores the metadata before the dimensions
MetadataFirst(w, dims) == w = 0

\* the metadata dataset follows the loop over the dimensions
MetadataTurn(w, dims) == w = Len(dims)

\* hdf.create_dataset('metadata', ...), the file is closed, return True
FwdWriteMetadata ==
    /\ InForward
    /\ cpos = "step5"
    /\ MetadataTurn(written, dimensions)
    /\ \E ok \in BOOLEAN :
        IF ok
        THEN /\ fs' = [fs EXCEPT ![output_file].datasets =
                            Put(@, "metadata", MetadataDataset(pipeline.metadata))]
             /\ Returned
        ELSE /\ Failed
             /\ UNCHANGED fs
    /\ UNCHANGED <<argVars, num_processes, direction, fsLog, fwdVars, invVars,
                   exit_status>>

\* ------------------------------------------------ convert_hdf5_to_las
InInverse == pc = "running" /\ direction = "inverse"

\* print("Step 1: Reading HDF5 file...")
InvBegin ==
    /\ InInverse
    /\ cpos = "idle"
    /\ Continue("reading")
    /\ UNCHANGED <<argVars, num_processes, direction, fs, fsLog, fwdVars,
                   invVars, exit_status>>

\* {key: np.array(hdf[key][:]) for key in hdf.keys() if key != 'metadata'}
ReadColumns(datasets) ==
    [k \in DOMAIN datasets \ {"metadata"} |-> datasets[k].data]

\* json.loads(hdf['metadata'][()]) if 'metadata' in hdf else {}
ReadMetadata(datasets) ==
    IF "metadata" \in DOMAIN datasets
    THEN JsonLoads(datasets["metadata"].data)
    ELSE EmptyMetadata

\* with h5py.File(hdf5_file_path, 'r') as hdf: raises unless the input is a
\* container; every dataset is then loaded into memory
InvReadContainer ==
    /\ InInverse
    /\ cpos = "reading"
    /\ fsLog' = fsLog \cup {"read_input"}
    /\ \E ok \in BOOLEAN :
        IF ok /\ fs[input_file].kind = "hdf5"
        THEN /\ data' = ReadColumns(fs[input_file].datasets)
             /\ metadata' = ReadMetadata(fs[input_file].datasets)
             /\ Continue("loaded")
        ELSE /\ Failed
             /\ UNCHANGED <<data, metadata>>
    /\ UNCHANGED <<argVars, num_processes, direction, fs, fwdVars, las,
                   exit_status>>

\* header = laspy.LasHeader(point_format=3, version="1.2"); las = LasData(header)
InvCreateHeader ==
    /\ InInverse
    /\ cpos = "loaded"
    /\ las' = [point_format |-> PointFormat, version |-> "1.2", attrs |-> NoColumns]
    /\ Continue("header")
    /\ UNCHANGED <<argVars, num_processes, direction, fs, fsLog, fwdVars, data,
                   metadata, exit_status>>

\* las.x = data['X']; las.y = data['Y']; las.z = data['Z'] raise KeyError on
\* the first column that is missing: the columns assigned before it
RequiredAssigned(d) ==
    IF "X" \notin DOMAIN d THEN {}
    ELSE IF "Y" \notin DOMAIN d THEN {"X"}
    ELSE IF "Z" \notin DOMAIN d THEN {"X", "Y"}
    ELSE {"X", "Y", "Z"}

\* an assembler that does not require Z
RequiredPresentXY(d) == {"X", "Y"} \subseteq DOMAIN d

\* whether the three required assignments pass
RequiredPresent(d) == RequiredDims \subseteq DOMAIN d

\* if 'Intensity' in data: ... if 'PointSourceId' in data: ...
OptionalAssigned(d) == OptionalDims \cap DOMAIN d

\* a colour test that accepts any one channel
ColourAnyPresent(d) == "Red" \in DOMAIN d \/ "Green" \in DOMAIN d \/ "Blue" \in DOMAIN d

\* if 'Red' in data and 'Green' in data and 'Blue' in data:
ColourGroupPresent(d) == "Red" \in DOMAIN d /\ "Green" \in DOMAIN d /\ "Blue" \in DOMAIN d

ColourAssigned(d) == IF ColourGroupPresent(d) THEN ColourDims \cap DOMAIN d ELSE {}

\* the dimensions lines 99 to 127 assign, in the columns d
Assigned(d) ==
    IF RequiredPresent(d)
    THEN (RequiredAssigned(d) \cup OptionalAssigned(d)) \cup ColourAssigned(d)
    ELSE RequiredAssigned(d)

\* the attributes of las after lines 99 to 127
Assemble(d) ==
    LET ds == Assigned(d)
    IN  [f \in {LasField(x) : x \in ds} |->
            LET x == CHOOSE y \in ds : LasField(y) = f
            IN  IF x \in RequiredDims THEN SetCoordinate(d[x]) ELSE SetField(d[x])]

\* a KeyError leaves the attributes assigned before it; a value the encoder
\* rejects (ok = FALSE) raises as well
InvAssemble ==
    /\ InInverse
    /\ cpos = "header"
    /\ las' = [las EXCEPT !.attrs = Assemble(data)]
    /\ \E ok \in BOOLEAN :
        IF ok /\ RequiredPresent(data)
        THEN Continue("assembled")
        ELSE Failed
    /\ UNCHANGED <<argVars, num_processes, direction, fs, fsLog, fwdVars, data,
                   metadata, exit_status>>

PointCount(attrs) ==
    LET lens == {attrs[f].len : f \in DOMAIN attrs}
    IN  IF lens = {} THEN 0 ELSE CHOOSE m \in lens : \A k \in lens : k <= m

\* the LAS file las.write produces: every field of the point format, zero
\* where no attribute was assigned
LasOutput(l) ==
    [kind |-> "las", n |-> PointCount(l.attrs),
     cols |-> [d \in HeaderDims |->
                IF LasField(d) \in DOMAIN l.attrs
                THEN l.attrs[LasField(d)]
                ELSE Zeros(PointCount(l.attrs))],
     metadata |-> PipelineMetadata]

\* las.write(las_file_path); a failing write may leave a truncated file
InvWriteLas ==
    /\ InInverse
    /\ cpos = "assembled"
    /\ \E ok \in BOOLEAN, partial \in BOOLEAN :
        IF ok
        THEN /\ fs' = [fs EXCEPT ![output_file] = LasOutput(las)]
             /\ fsLog' = fsLog \cup {"create_output"}
             /\ Returned
        ELSE /\ fs' = IF partial THEN [fs EXCEPT ![output_file] = Unreadable] ELSE fs
             /\ fsLog' = IF partial THEN fsLog \cup {"create_output"} ELSE fsLog
             /\ Failed
    /\ UNCHANGED <<argVars, num_processes, direction, fwdVars, invVars,
                   exit_status>>

\* ------------------------------------------------------ specifications
Convert ==
    \/ FwdCreatePipeline
    \/ FwdExecute
    \/ FwdGetView
    \/ FwdOpenContainer
    \/ FwdCreateDataset
    \/ FwdWriteMetadata
    \/ InvBegin
    \/ InvReadContainer
    \/ InvCreateHeader
    \/ InvAssemble
    \/ InvWriteLas

Next ==
    \/ MainAdjust
    \/ MainConvert
    \/ MainSummary
    \/ Dispatch
    \/ Convert

Spec == Init /\ [][Next]_vars

\* The round trip: main converts a LAS file to a container, and is then
\* invoked with --to-las on the container it wrote.
InitRoundTrip ==
    /\ run = 1
    /\ entry = "main"
    /\ input_file = LasPath
    /\ output_file = HdfPath
    /\ to_las = FALSE
    /\ requested = 1
    /\ num_processes = requested
    /\ max_memory = NoMaxMemory
    /\ pc = "adjust"
    /\ \E ds \in CloudDimSets, n \in PointCounts, s \in 0..MaxSeed :
        fs = [p \in Paths |-> IF p = input_file THEN LasFile(ds, n, s) ELSE Absent]
    /\ Locals

\* python ST0las2hdf_perfect_kana_pdal.py b.hdf5 A.LAS --to-las
Reinvoke ==
    /\ run = 1
    /\ pc = "exit"
    /\ result = "true"
    /\ run' = 2
    /\ input_file' = output_file
    /\ output_file' = UpperLasPath
    /\ to_las' = TRUE
    /\ pc' = "adjust"
    /\ pipeline' = NoPipeline
    /\ view' = NoColumns
    /\ dimensions' = << >>
    /\ written' = 0
    /\ data' = NoColumns
    /\ metadata' = ""
    /\ las' = NoLas
    /\ direction' = "none"
    /\ cpos' = "idle"
    /\ result' = "none"
    /\ stdout' = {}
    /\ fsLog' = {}
    /\ exit_status' = 0
    /\ UNCHANGED <<entry, requested, num_processes, max_memory, fs>>

NextRoundTrip ==
    \/ MainAdjust
    \/ MainConvert
    \/ MainSummary
    \/ Convert
    \/ Reinvoke

SpecRoundTrip == InitRoundTrip /\ [][NextRoundTrip]_vars

\* ------------------------------------------------------------- claims
HasReturned == pc \in {"summary", "returned", "exit"}
OutputCreated == "create_output" \in fsLog
Abs(x) == IF x < 0 THEN 0 - x ELSE x

\* C1 (as claimed): after the forward conversion of a LAS file P and the
\* inverse conversion of the container it wrote, the output LAS holds every
\* dimension of P with, for every point, the value P has: exactly for the
\* integer dimensions, within half the encoder's scale (2 quarters) for X, Y, Z.
C1_RoundTripPreservesAll ==
    (run = 2 /\ pc = "exit" /\ result = "true") =>
        LET P == fs[LasPath]
            Q == fs[output_file]
        IN  \A d \in DOMAIN P.cols :
                /\ d \in DOMAIN Q.cols
                /\ Q.cols[d].len = P.cols[d].len
                /\ \A i \in DOMAIN P.cols[d].head :
                    IF d \in {"X", "Y", "Z"}
                    THEN Abs(Q.cols[d].head[i] - P.cols[d].head[i]) <= 2
                    ELSE Q.cols[d].head[i] = P.cols[d].head[i]

\* C2: an inverse conversion of a container that lacks X, Y or Z never comes
\* to the LAS write: the output path is never created or written, and the
\* conversion, once it has returned, has returned the failure outcome.
C2_MissingRequiredFails ==
    (/\ direction = "inverse"
     /\ fs[input_file].kind = "hdf5"
     /\ ~({"X", "Y", "Z"} \subseteq DOMAIN fs[input_file].datasets)) =>
        /\ cpos \notin {"assembled", "done"}
        /\ ~OutputCreated
        /\ (output_file # input_file => fs[output_file].kind = "absent")
        /\ (HasReturned => result = "false" /\ cpos = "failed")

\* C2 witness: a container with X and Y but no Z, and with all three colours,
\* was read, the assembly raised at las.z, and main has exited.
C2_Witness ==
    /\ direction = "inverse"
    /\ pc = "exit"
    /\ cpos = "failed"
    /\ DOMAIN data = {"X", "Y", "Red", "Green", "Blue"}
    /\ DOMAIN las.attrs = {"x", "y"}
    /\ result = "false"

\* C3 (as claimed): convert_single_file runs the forward pipeline exactly
\* when the input path ends in .las and the output path in .hdf5, the inverse
\* pipeline exactly when they end in .hdf5 and .las, and otherwise returns the
\* failure outcome without any file operation.
C3_ExactExtensions ==
    (entry = "dispatch" /\ pc # "dispatch") =>
        /\ direction = "forward" <=>
            (EndsWith(input_file, LasExt) /\ EndsWith(output_file, HdfExt))
        /\ direction = "inverse" <=>
            (EndsWith(input_file, HdfExt) /\ EndsWith(output_file, LasExt))
        /\ direction = "none" =>
            (pc = "returned" /\ result = "false" /\ fsLog = {} /\ cpos = "idle")

IsLas(p) == EndsWith(Lower(p), LasExt)
IsHdf(p) == EndsWith(Lower(p), HdfExt)

\* C3 (amended): the same with the extensions compared without regard to
\* case: a.LAS or A.LAS is a .las path.  In the unsupported case nothing is
\* read or written: every path but the input is still absent.
C3_DispatchByExtension ==
    (entry = "dispatch" /\ pc # "dispatch") =>
        /\ direction = "forward" <=> (IsLas(input_file) /\ IsHdf(output_file))
        /\ direction = "inverse" <=> (IsHdf(input_file) /\ IsLas(output_file))
        /\ direction = "none" =>
            /\ pc = "returned"
            /\ result = "false"
            /\ fsLog = {}
            /\ cpos = "idle"
            /\ \A p \in Paths \ {input_file} : fs[p].kind = "absent"
            /\ "Unsupported file conversion" \in stdout

\* C3 witness: the pair (A.LAS, b.hdf5) went through the forward pipeline.
C3_Witness ==
    /\ entry = "dispatch"
    /\ input_file = UpperLasPath
    /\ output_file = HdfPath
    /\ direction = "forward"
    /\ cpos = "done"
    /\ pc = "returned"

\* C4 (as claimed): whatever --to-las says, main never runs a direction that
\* contradicts the extensions: not the inverse pipeline on .las -> .hdf5, not
\* the forward pipeline on .hdf5 -> .las.
C4_FlagFollowsExtensions ==
    entry = "main" =>
        /\ (IsLas(input_file) /\ IsHdf(output_file)) => direction # "inverse"
        /\ (IsHdf(input_file) /\ IsLas(output_file)) => direction # "forward"

Colours(attrs) == {"red", "green", "blue"} \cap DOMAIN attrs

\* C5: the assembled point cloud has all three of red, green, blue or none of
\* them; it has them only if Red, Green and Blue are all among the columns,
\* and, once the assembly has completed, whenever they all are.
C5_ColourAllOrNothing ==
    /\ Colours(las.attrs) \in {{}, {"red", "green", "blue"}}
    /\ Colours(las.attrs) # {} => {"Red", "Green", "Blue"} \subseteq DOMAIN data
    /\ (direction = "inverse" /\ cpos \in {"assembled", "done"}) =>
        ({"Red", "Green", "Blue"} \subseteq DOMAIN data => Colours(las.attrs) # {})

\* C5 witness: columns with Green and Blue but not Red were assembled, and
\* the point cloud about to be written has no colour.
C5_Witness ==
    /\ direction = "inverse"
    /\ cpos = "assembled"
    /\ {"Green", "Blue"} \subseteq DOMAIN data
    /\ "Red" \notin DOMAIN data
    /\ "x" \in DOMAIN las.attrs
    /\ Colours(las.attrs) = {}

\* C6 (as claimed): when main exits, a successful conversion has printed the
\* completion message and the status is 0; a failed conversion has printed
\* the failure message and the status is not 0.
C6_ExitStatus ==
    (entry = "main" /\ pc = "exit") =>
        /\ result = "true" =>
            (exit_status = 0 /\ "Conversion completed successfully." \in stdout)
        /\ result = "false" =>
            (exit_status # 0 /\ "Conversion failed." \in stdout)

\* C7 (as claimed): with --max-memory M given, the worker count after the
\* adjustment is R capped by floor(M / 2), at most R, and at least 1.
C7_WorkerCount ==
    (entry = "main" /\ pc # "adjust" /\ max_memory # NoMaxMemory) =>
        /\ num_processes = Min(requested, max_memory \div 2)
        /\ num_processes <= requested
        /\ num_processes >= 1

\* C8: every dimension dataset the forward conversion has written carries the
\* chunk length min(N, 1,000,000), N the point count of the view, the same for
\* every dimension.
C8_ChunkLength ==
    (direction = "forward" /\ OutputCreated) =>
        LET ds == fs[output_file].datasets
        IN  \A k \in DOMAIN ds \ {"metadata"} :
                /\ ds[k].data.len = view[k].len
                /\ ds[k].chunks =
                    IF view[k].len <= 1000000 THEN view[k].len ELSE 1000000
                /\ \A j \in DOMAIN ds \ {"metadata"} : ds[j].chunks = ds[k].chunks

\* C8 witness: a view of 2,500,000 points has been written in full, in
\* chunks of 1,000,000.
C8_Witness ==
    /\ direction = "forward"
    /\ cpos = "done"
    /\ fs[output_file].kind = "hdf5"
    /\ \A d \in DOMAIN view :
        /\ d \in DOMAIN fs[output_file].datasets
        /\ fs[output_file].datasets[d].data.len = 2500000
        /\ fs[output_file].datasets[d].chunks = 1000000

\* the phase a position of a conversion function belongs to
Phase(c) ==
    CASE c = "idle" -> "Idle"
      [] c \in {"step1", "reading"} -> "Reading"
      [] c \in {"step2", "loaded", "header"} -> "Transforming"
      [] c \in {"step4", "step5", "assembled"} -> "Writing"
      [] c = "done" -> "Done"
      [] c = "failed" -> "Failed"

PhaseEdges ==
    {<<"Idle", "Reading">>, <<"Reading", "Transforming">>,
     <<"Transforming", "Writing">>, <<"Writing", "Done">>,
     <<"Reading", "Failed">>, <<"Transforming", "Failed">>,
     <<"Writing", "Failed">>}

\* C9: every step of a conversion stays in its phase or follows an edge of
\* Idle -> Reading -> Transforming -> Writing -> Done, or goes from a running
\* phase to Failed; Failed and Done are never left; nothing is written to the
\* output before the input has been read; and the conversion returns exactly
\* when it is Done, with True, or Failed, with False.
C9_PhaseOrder ==
    [][/\ Phase(cpos') = Phase(cpos) \/ <<Phase(cpos), Phase(cpos')>> \in PhaseEdges
       /\ cpos \in {"failed", "done"} => cpos' = cpos
       /\ OutputCreated' =>
            ("read_input" \in fsLog' /\ Phase(cpos') \in {"Writing", "Done", "Failed"})
       /\ Phase(cpos') \in {"Writing", "Done"} => "read_input" \in fsLog'
       /\ (HasReturned' /\ direction' # "none") =>
            \/ cpos' = "done" /\ result' = "true"
            \/ cpos' = "failed" /\ result' = "false"
       /\ pc' = "running" =>
            (result' = "none" /\ Phase(cpos') \notin {"Done", "Failed"})]_vars

\* C9 witness: a forward conversion failed in its write phase, after some
\* datasets were written, and main has exited.
C9_Witness ==
    /\ direction = "forward"
    /\ pc = "exit"
    /\ cpos = "failed"
    /\ written > 0
    /\ result = "false"

WrittenDims == {dimensions[i] : i \in 1..written}

\* C10: in a forward conversion the container is created only after the
\* ingestion has succeeded; once created it stays a container holding exactly
\* the first `written` dimensions of the view, also after a failure; the
\* metadata dataset is there only when every dimension is, and never after a
\* failure.
C10_NonAtomicWrite ==
    direction = "forward" =>
        /\ (~OutputCreated /\ output_file # input_file) =>
            fs[output_file].kind = "absent"
        /\ OutputCreated =>
            /\ cpos \in {"step5", "done", "failed"}
            /\ "read_input" \in fsLog
            /\ DOMAIN view # {}
            /\ fs[output_file].kind = "hdf5"
            /\ DOMAIN fs[output_file].datasets \ {"metadata"} = WrittenDims
            /\ "metadata" \in DOMAIN fs[output_file].datasets =>
                (DOMAIN view \subseteq DOMAIN fs[output_file].datasets /\ cpos = "done")
            /\ cpos = "done" => "metadata" \in DOMAIN fs[output_file].datasets

\* C10 witness: a dataset write failed mid-way: the conversion returned the
\* failure outcome, and the container holds the first two of five dimensions.
C10_Witness ==
    /\ direction = "forward"
    /\ pc = "exit"
    /\ result = "false"
    /\ written = 2
    /\ Len(dimensions) = 5
    /\ DOMAIN fs[output_file].datasets = {"X", "Y"}

====
